---- MODULE Spec2Model ----
\* Ticket list view (Tickets) and ticket creation dialog (CreateTicketDialog)
\* of botforge-services, with the backend tables they talk to and the
\* requests in flight between them.
EXTENDS Integers, Sequences, FiniteSets, TLC

\* ------------------------------------------------------------------ bounds
\* Submissions that pass validation (each draws two fresh UUIDs).
MaxSubmits == 2
\* fetchTickets requests that may be in flight at once.
MaxInFlight == 2

\* ------------------------------------------------------------------ state
VARIABLES
    user,             \* useAuth().user: <<>> (null) or <<actor>>
    effectPending,    \* the [user] effect of Tickets is scheduled and has not run
    tickets,          \* Tickets: useState([]) snapshot
    selectedTicket,   \* Tickets: <<>> (null) or <<row>>
    showCreateDialog, \* Tickets: the dialog's open flag
    loading,          \* Tickets: loading flag
    title,            \* CreateTicketDialog form state
    description,
    category,
    productId,
    dlgLoading,       \* CreateTicketDialog: loading (pending) flag
    store,            \* backend table tickets, in insertion order
    uuids,            \* number of crypto.randomUUID() values drawn
    now,              \* the last reading taken of the wall clock
    creates,          \* handleSubmit calls suspended at an await
    fetches,          \* fetchTickets calls suspended at their await, in issue order
    latest,           \* the most recently issued fetchTickets of the fetches that overlap
    event,            \* the handler that ran in the last step
    effects           \* what that handler did: toasts, callback calls, requests

vars == <<user, effectPending, tickets, selectedTicket, showCreateDialog, loading,
          title, description, category, productId, dlgLoading, store,
          uuids, now, creates, fetches, latest, event, effects>>

listVars == <<tickets, selectedTicket, loading>>
formVars == <<title, description, category, productId>>

\* ------------------------------------------------------------------ inputs
Actors == {[username |-> "alice", email |-> "", role |-> ""]}
TitleInputs == {<<" ">>, <<" ", "a", " ">>}
DescriptionInputs == {<<" ", "b">>}
CategoryValues == {"", "Orders", "Bogus"}
ProductValues == {"none"}
ErrorMessages == {"", "E1"}

\* ------------------------------------------------------------------ helpers
IsSpace(c) == c = " "

RECURSIVE TrimStart(_)
TrimStart(s) == IF s # <<>> /\ IsSpace(Head(s)) THEN TrimStart(Tail(s)) ELSE s

RECURSIVE TrimEnd(_)
TrimEnd(s) ==
    IF s # <<>> /\ IsSpace(s[Len(s)]) THEN TrimEnd(SubSeq(s, 1, Len(s) - 1)) ELSE s

\* String.prototype.trim
Trim(s) == TrimEnd(TrimStart(s))

\* a || b on strings
OrElse(a, b) == IF a = "" THEN b ELSE a

Toast(t, d, v) == [kind |-> "toast", name |-> t, detail |-> d, variant |-> v]
Call(fn, arg) == [kind |-> "call", name |-> fn, detail |-> <<arg>>, variant |-> ""]
Request(table, op) == [kind |-> "request", name |-> table, detail |-> <<op>>, variant |-> ""]

Ev(n) == [name |-> n, msg |-> "", live |-> TRUE]

ValidationToast == Toast("Error", <<"Please fill in all required fields.">>, "destructive")
AuthToast == Toast("Error", <<"You must be logged in to create a ticket.">>, "destructive")
SuccessToast == Toast("Success", <<"Your ticket has been created successfully.">>, "")
CreateFailedToast(msg) ==
    Toast("Error", <<"Failed to create ticket: ", OrElse(msg, "Please try again.")>>, "destructive")
FetchFailedToast == Toast("Error", <<"Failed to load tickets.">>, "destructive")

\* latest.stage: "pending" while the most recently issued fetchTickets is in
\* flight, "done" once its continuation ran (data: the rows it was answered
\* with); latest.failed: a fetch of this run of overlapping fetches has failed.
\* When the last outstanding fetch completes and one of them has failed, the
\* record is cleared.
NoLatest == [stage |-> "none", data |-> <<>>, failed |-> FALSE]

\* ------------------------------------------------------------------ initial state
Init ==
    /\ user \in {<<>>} \cup {<<a>> : a \in Actors}
    /\ effectPending = TRUE
    /\ tickets = <<>>
    /\ selectedTicket = <<>>
    /\ showCreateDialog = FALSE
    /\ loading = TRUE
    /\ title = <<>>
    /\ description = <<>>
    /\ category = ""
    /\ productId = ""
    /\ dlgLoading = FALSE
    /\ store = <<>>
    /\ uuids = 0
    /\ now = 0
    /\ creates = {}
    /\ fetches = <<>>
    /\ latest = NoLatest
    /\ event = Ev("init")
    /\ effects = <<>>

\* ------------------------------------------------------------------ fetchTickets
\* The synchronous part of fetchTickets: the select is sent.
CanFetch == Len(fetches) < MaxInFlight
IssueFetch == Append(fetches, [since |-> Len(store)])
LatestIssued == [stage |-> "pending", data |-> <<>>,
                 failed |-> IF fetches = <<>> THEN FALSE ELSE latest.failed]

\* useEffect(() => { if (user) fetchTickets() }, [user])
RunUserEffect ==
    /\ effectPending
    /\ effectPending' = FALSE
    /\ IF user # <<>>
       THEN /\ CanFetch
            /\ fetches' = IssueFetch
            /\ latest' = LatestIssued
            /\ effects' = <<Request("tickets", "select")>>
       ELSE /\ UNCHANGED <<fetches, latest>>
            /\ effects' = <<>>
    /\ event' = Ev("userEffect")
    /\ UNCHANGED <<user, listVars, showCreateDialog, formVars, dlgLoading,
                   store, uuids, now, creates>>

\* ------------------------------------------------------------------ backend: select tickets
Orderings(n) == {p \in [1..n -> 1..n] : \A i, j \in 1..n : p[i] = p[j] => i = j}

SortedDesc(rows) ==
    \A i \in 1..(Len(rows) - 1) : rows[i].created_at >= rows[i + 1].created_at

\* .order('created_at', { ascending: false }): every ordering of the table's
\* rows that is descending in created_at (ties in any order).
FetchResults(table) ==
    {rows \in {[i \in 1..Len(table) |-> table[p[i]]] : p \in Orderings(Len(table))} :
        SortedDesc(rows)}

\* What the await of a select sent when the table held `since` rows can come
\* back with: the rows of the table as it stood at some moment between the send
\* and now (rows are only ever appended), or a failure (an error in the result,
\* thrown at `if (error) throw error`, or a rejected request).
Responses(since) ==
    {[kind |-> "ok", data |-> rows] :
        rows \in UNION {FetchResults(SubSeq(store, 1, n)) : n \in since..Len(store)}}
    \cup {[kind |-> "failed", data |-> <<>>]}

RemoveAt(seq, i) == SubSeq(seq, 1, i - 1) \o SubSeq(seq, i + 1, Len(seq))

\* TicketsAfterFetch with setTickets([]) in the catch block.
TicketsAfterFetchCleared(resp) == IF resp.kind = "ok" THEN resp.data ELSE <<>>

\* FetchToasts with a catch block that only logs.
FetchToastsSilent(resp) == <<>>

\* try { ...; if (error) throw error; setTickets(data || []) } catch { toast }
TicketsAfterFetch(resp) == IF resp.kind = "ok" THEN resp.data ELSE tickets

FetchToasts(resp) == IF resp.kind = "ok" THEN <<>> ELSE <<FetchFailedToast>>

\* finally { setLoading(false) }
LoadingAfterFetch == FALSE

LatestAfter(i, resp) ==
    LET bad == resp.kind # "ok"
        after == IF i = Len(fetches) /\ latest.stage = "pending"
                 THEN [stage |-> "done", data |-> resp.data,
                       failed |-> latest.failed \/ bad]
                 ELSE [latest EXCEPT !.failed = @ \/ bad]
    IN  IF Len(fetches) = 1 /\ after.failed THEN NoLatest ELSE after

\* The continuation of fetchTickets after its await, for request number i.
DeliverFetch(i) ==
    /\ \E resp \in Responses(fetches[i].since) :
          /\ tickets' = TicketsAfterFetch(resp)
          /\ effects' = FetchToasts(resp)
          /\ event' = Ev(IF resp.kind = "ok" THEN "fetchOk" ELSE "fetchFailed")
          /\ latest' = LatestAfter(i, resp)
    /\ loading' = LoadingAfterFetch
    /\ fetches' = RemoveAt(fetches, i)
    /\ UNCHANGED <<user, effectPending, selectedTicket, showCreateDialog, formVars,
                   dlgLoading, store, uuids, now, creates>>

\* ------------------------------------------------------------------ Tickets: user actions
\* The list (and with it the dialog) is rendered only while no ticket is selected.
ListRendered == selectedTicket = <<>>

\* <Button onClick={() => setShowCreateDialog(true)}>
OpenDialog ==
    /\ ListRendered
    /\ ~showCreateDialog
    /\ showCreateDialog' = TRUE
    /\ event' = Ev("ui")
    /\ effects' = <<>>
    /\ UNCHANGED <<user, effectPending, listVars, formVars, dlgLoading, store,
                   uuids, now, creates, fetches, latest>>

\* <Card onClick={() => setSelectedTicket(ticket)}>: the cards are rendered when
\* loading is false. The early return then renders TicketDetails alone, which
\* unmounts CreateTicketDialog: its state is gone (a later mount starts from the
\* useState initial values) and the handleSubmit calls it has suspended belong
\* to an instance that is no longer mounted.
SelectTicket(i) ==
    /\ ListRendered
    /\ ~loading
    /\ selectedTicket' = <<tickets[i]>>
    /\ title' = <<>>
    /\ description' = <<>>
    /\ category' = ""
    /\ productId' = ""
    /\ dlgLoading' = FALSE
    /\ creates' = {[c EXCEPT !.live = FALSE] : c \in creates}
    /\ event' = Ev("selectTicket")
    /\ effects' = <<>>
    /\ UNCHANGED <<user, effectPending, tickets, loading, showCreateDialog, store,
                   uuids, now, fetches, latest>>

\* Back with a re-fetch: onBack={() => { setSelectedTicket(null); setLoading(true); fetchTickets() }}
BackRefetches ==
    /\ selectedTicket # <<>>
    /\ CanFetch
    /\ selectedTicket' = <<>>
    /\ loading' = TRUE
    /\ fetches' = IssueFetch
    /\ latest' = LatestIssued
    /\ event' = Ev("back")
    /\ effects' = <<Request("tickets", "select")>>
    /\ UNCHANGED <<user, effectPending, tickets, showCreateDialog, formVars,
                   dlgLoading, store, uuids, now, creates>>

\* onBack={() => setSelectedTicket(null)}
Back ==
    /\ selectedTicket # <<>>
    /\ selectedTicket' = <<>>
    /\ event' = Ev("back")
    /\ effects' = <<>>
    /\ UNCHANGED <<user, effectPending, tickets, loading, showCreateDialog, formVars,
                   dlgLoading, store, uuids, now, creates, fetches, latest>>

\* onUpdate={fetchTickets}, called by TicketDetails
DetailUpdate ==
    /\ selectedTicket # <<>>
    /\ CanFetch
    /\ fetches' = IssueFetch
    /\ latest' = LatestIssued
    /\ event' = Ev("detailUpdate")
    /\ effects' = <<Request("tickets", "select")>>
    /\ UNCHANGED <<user, effectPending, listVars, showCreateDialog, formVars, dlgLoading,
                   store, uuids, now, creates>>

\* ------------------------------------------------------------------ CreateTicketDialog: form
\* <Dialog open={open}>: the form and its controls exist while the dialog is open.
DialogRendered == ListRendered /\ showCreateDialog

\* onChange={(e) => setTitle(e.target.value)}
SetTitle(v) ==
    /\ DialogRendered
    /\ title' = v
    /\ event' = Ev("ui")
    /\ effects' = <<>>
    /\ UNCHANGED <<user, effectPending, listVars, showCreateDialog, description, category,
                   productId, dlgLoading, store, uuids, now, creates, fetches, latest>>

\* onChange={(e) => setDescription(e.target.value)}
SetDescription(v) ==
    /\ DialogRendered
    /\ description' = v
    /\ event' = Ev("ui")
    /\ effects' = <<>>
    /\ UNCHANGED <<user, effectPending, listVars, showCreateDialog, title, category,
                   productId, dlgLoading, store, uuids, now, creates, fetches, latest>>

handleCategoryChange(v) ==
    /\ DialogRendered
    /\ category' = IF v \in {"", "Account", "Orders", "Other"} THEN v ELSE category
    /\ event' = Ev("ui")
    /\ effects' = <<>>
    /\ UNCHANGED <<user, effectPending, listVars, showCreateDialog, title, description,
                   productId, dlgLoading, store, uuids, now, creates, fetches, latest>>

\* onValueChange={(value) => setProductId(value === 'none' ? '' : value)}
SetProductId(v) ==
    /\ DialogRendered
    /\ productId' = IF v = "none" THEN "" ELSE v
    /\ event' = Ev("ui")
    /\ effects' = <<>>
    /\ UNCHANGED <<user, effectPending, listVars, showCreateDialog, title, description,
                   category, dlgLoading, store, uuids, now, creates, fetches, latest>>

\* <Button onClick={() => onOpenChange(false)} disabled={loading}>Cancel
Cancel ==
    /\ DialogRendered
    /\ ~dlgLoading
    /\ showCreateDialog' = FALSE
    /\ event' = Ev("ui")
    /\ effects' = <<Call("onOpenChange", "false")>>
    /\ UNCHANGED <<user, effectPending, listVars, formVars, dlgLoading, store,
                   uuids, now, creates, fetches, latest>>

\* <Dialog onOpenChange={onOpenChange}>: the Dialog itself asks to be closed.
DialogDismiss ==
    /\ DialogRendered
    /\ showCreateDialog' = FALSE
    /\ event' = Ev("ui")
    /\ effects' = <<Call("onOpenChange", "false")>>
    /\ UNCHANGED <<user, effectPending, listVars, formVars, dlgLoading, store,
                   uuids, now, creates, fetches, latest>>

\* ------------------------------------------------------------------ CreateTicketDialog: handleSubmit
\* SubmitEnabled without the disabled={loading} attribute.
SubmitAlwaysEnabled == TRUE

\* <Button type="submit" disabled={loading}>
SubmitEnabled == ~dlgLoading

\* FormInvalid without the trim() calls.
FormInvalidUntrimmed == title = <<>> \/ description = <<>> \/ category = ""

\* !title.trim() || !description.trim() || !category
FormInvalid == Trim(title) = <<>> \/ Trim(description) = <<>> \/ category = ""

\* new Date() twice: the first reading is later than the one the previous
\* submission took, the second is the same instant or the next one.
ClockReads == {<<now + 1, now + 1>>, <<now + 1, now + 2>>}

TicketData(t1, t2) ==
    [id |-> uuids + 1,
     user_id |-> uuids + 2,
     title |-> Trim(title),
     description |-> Trim(description),
     category |-> category,
     product_id |-> OrElse(productId, "null"),
     status |-> "open",
     created_at |-> t1,
     updated_at |-> t2]

\* handleSubmit up to its first await: the two client-side checks, then
\* setLoading(true) and the tickets insert.
handleSubmit ==
    /\ DialogRendered
    /\ SubmitEnabled
    /\ IF FormInvalid
       THEN /\ effects' = <<ValidationToast>>
            /\ event' = Ev("submitInvalid")
            /\ UNCHANGED <<dlgLoading, uuids, now, creates>>
       ELSE IF user = <<>>
       THEN /\ effects' = <<AuthToast>>
            /\ event' = Ev("submitNoUser")
            /\ UNCHANGED <<dlgLoading, uuids, now, creates>>
       ELSE /\ uuids < 2 * MaxSubmits
            /\ dlgLoading' = TRUE
            /\ \E r \in ClockReads :
                  /\ now' = r[2]
                  /\ creates' = creates \cup
                        {[stage |-> "insert", live |-> TRUE,
                          data |-> TicketData(r[1], r[2]), actor |-> user[1]]}
            /\ uuids' = uuids + 2
            /\ effects' = <<Request("tickets", "insert")>>
            /\ event' = Ev("submitSent")
    /\ UNCHANGED <<user, effectPending, listVars, showCreateDialog, formVars,
                   store, fetches, latest>>

\* CreateCatch with the form reset moved into the finally block.
CreateCatchResets(c, msg, name) ==
    /\ creates' = creates \ {c}
    /\ effects' = <<CreateFailedToast(msg)>>
    /\ dlgLoading' = IF c.live THEN FALSE ELSE dlgLoading
    /\ title' = IF c.live THEN <<>> ELSE title
    /\ description' = IF c.live THEN <<>> ELSE description
    /\ category' = IF c.live THEN "" ELSE category
    /\ productId' = IF c.live THEN "" ELSE productId
    /\ event' = [name |-> name, msg |-> msg, live |-> c.live]
    /\ UNCHANGED <<user, effectPending, listVars, showCreateDialog,
                   uuids, now, fetches, latest>>

\* catch (error) { toast(...) } finally { setLoading(false) }. A state setter of
\* an instance that is no longer mounted changes nothing.
CreateCatch(c, msg, name) ==
    /\ creates' = creates \ {c}
    /\ effects' = <<CreateFailedToast(msg)>>
    /\ dlgLoading' = IF c.live THEN FALSE ELSE dlgLoading
    /\ event' = [name |-> name, msg |-> msg, live |-> c.live]
    /\ UNCHANGED <<user, effectPending, listVars, showCreateDialog, formVars,
                   uuids, now, fetches, latest>>

\* The tickets insert comes back: a row, an error in the result, or a rejection.
InsertResolve(c) ==
    /\ c.stage = "insert"
    /\ \/ /\ store' = Append(store, c.data)
          /\ creates' = (creates \ {c}) \cup {[c EXCEPT !.stage = "upsert"]}
          /\ effects' = <<Request("users", "upsert")>>
          /\ event' = [name |-> "insertOk", msg |-> "", live |-> c.live]
          /\ UNCHANGED <<user, effectPending, listVars, showCreateDialog, formVars,
                         dlgLoading, uuids, now, fetches, latest>>
       \/ \E msg \in ErrorMessages :
          /\ CreateCatch(c, msg, "insertFailed")
          /\ UNCHANGED store
       \/ \E msg \in ErrorMessages :
          /\ CreateCatch(c, msg, "insertRejected")
          /\ UNCHANGED store

\* After the upsert's await: toast, reset, close, refresh (fetchTickets up to
\* its await), then finally { setLoading(false) }.
CreateSuccess(c, name) ==
    /\ CanFetch
    /\ creates' = creates \ {c}
    /\ effects' = <<SuccessToast, Call("onOpenChange", "false"),
                    Call("onTicketCreated", ""), Request("tickets", "select")>>
    /\ title' = IF c.live THEN <<>> ELSE title
    /\ description' = IF c.live THEN <<>> ELSE description
    /\ category' = IF c.live THEN "" ELSE category
    /\ productId' = IF c.live THEN "" ELSE productId
    /\ showCreateDialog' = FALSE
    /\ fetches' = IssueFetch
    /\ latest' = LatestIssued
    /\ dlgLoading' = IF c.live THEN FALSE ELSE dlgLoading
    /\ event' = [name |-> name, msg |-> "", live |-> c.live]
    /\ UNCHANGED <<user, effectPending, listVars, uuids, now>>

\* The users upsert comes back: its result is not looked at, a rejection throws.
UpsertResolve(c) ==
    /\ c.stage = "upsert"
    /\ \/ /\ CreateSuccess(c, "upsertOk")
          /\ UNCHANGED store
       \/ /\ CreateSuccess(c, "upsertError")
          /\ UNCHANGED store
       \/ \E msg \in ErrorMessages :
          /\ CreateCatch(c, msg, "upsertRejected")
          /\ UNCHANGED store

Next ==
    \/ RunUserEffect
    \/ \E i \in 1..Len(fetches) : DeliverFetch(i)
    \/ OpenDialog
    \/ \E i \in 1..Len(tickets) : SelectTicket(i)
    \/ Back
    \/ DetailUpdate
    \/ \E v \in TitleInputs : SetTitle(v)
    \/ \E v \in DescriptionInputs : SetDescription(v)
    \/ \E v \in CategoryValues : handleCategoryChange(v)
    \/ \E v \in ProductValues : SetProductId(v)
    \/ Cancel
    \/ DialogDismiss
    \/ handleSubmit
    \/ \E c \in creates : InsertResolve(c)
    \/ \E c \in creates : UpsertResolve(c)

Spec == Init /\ [][Next]_vars

\* Every issued request eventually comes back and React runs a scheduled effect;
\* nothing obliges the user to act.
FairSpec ==
    /\ Spec
    /\ WF_vars(RunUserEffect)
    /\ WF_vars(\E i \in 1..Len(fetches) : DeliverFetch(i))
    /\ WF_vars(\E c \in creates : InsertResolve(c))
    /\ WF_vars(\E c \in creates : UpsertResolve(c))

\* ------------------------------------------------------------------ reading the last step
Toasts(e) == SelectSeq(e, LAMBDA x : x.kind = "toast")
Calls(e) == SelectSeq(e, LAMBDA x : x.kind = "call")
Requests(e) == SelectSeq(e, LAMBDA x : x.kind = "request")
RequestsTo(e, table) == SelectSeq(e, LAMBDA x : x.kind = "request" /\ x.name = table)

\* Only spaces, or nothing at all.
Blank(s) == \A i \in 1..Len(s) : s[i] = " "

FormEmpty == title = <<>> /\ description = <<>> /\ category = "" /\ productId = ""

SubmitEvents == {"submitInvalid", "submitNoUser", "submitSent"}
UpsertEvents == {"upsertOk", "upsertError", "upsertRejected"}
CreateOutcomes ==
    {"submitInvalid", "submitNoUser", "insertFailed", "insertRejected"} \cup UpsertEvents

\* ------------------------------------------------------------------ C1
\* C1: when the tickets insert returns an error, that step of handleSubmit
\* sends no users upsert, leaves title, description, category and product
\* selection as they were, leaves the dialog's open flag alone, calls neither
\* onOpenChange nor onTicketCreated (no fetch is sent), and shows exactly one
\* destructive toast whose text carries the error's message (or the fallback
\* text when the message is empty).
C1_InsertErrorAborts ==
    [][event'.name = "insertFailed" =>
        /\ Requests(effects') = <<>>
        /\ \A c \in creates' : c.stage = "upsert" => c \in creates
        /\ UNCHANGED formVars
        /\ UNCHANGED showCreateDialog
        /\ Calls(effects') = <<>>
        /\ UNCHANGED fetches
        /\ Len(Toasts(effects')) = 1
        /\ Toasts(effects')[1].name = "Error"
        /\ Toasts(effects')[1].variant = "destructive"
        /\ Toasts(effects')[1].detail =
              <<"Failed to create ticket: ",
                IF event'.msg = "" THEN "Please try again." ELSE event'.msg>>]_vars

\* An insert came back with error "E1" while the dialog was open on a filled form.
C1_Witness ==
    /\ event.name = "insertFailed"
    /\ event.msg = "E1"
    /\ event.live
    /\ showCreateDialog
    /\ Trim(title) = <<"a">>
    /\ category = "Orders"
    /\ store = <<>>

\* ------------------------------------------------------------------ C2
\* C2: every submission sends exactly one tickets insert; every inserted row has
\* status "open" and created_at equal to updated_at; and once the insert has
\* succeeded, whatever the users upsert does, the submission ends with the form
\* empty, onOpenChange(false) called and onTicketCreated called exactly once.
C2_SuccessfulCreation ==
    /\ event.name = "submitSent" => Len(RequestsTo(effects, "tickets")) = 1
    /\ \A i \in 1..Len(store) :
          store[i].status = "open" /\ store[i].created_at = store[i].updated_at
    /\ event.name \in UpsertEvents =>
          /\ event.live => FormEmpty
          /\ ~showCreateDialog
          /\ Calls(effects) = <<Call("onOpenChange", "false"), Call("onTicketCreated", "")>>

\* ------------------------------------------------------------------ C3
\* C3: a submission made with a blank title or description, no category or no
\* authenticated user sends no request, shows one destructive toast, leaves the
\* pending flag false, and leaves the form and the dialog's open flag as they were.
C3_RejectedSubmission ==
    [][(/\ event'.name \in SubmitEvents
        /\ \/ Blank(title)
           \/ Blank(description)
           \/ category = ""
           \/ user = <<>>) =>
        /\ Requests(effects') = <<>>
        /\ UNCHANGED creates
        /\ Len(Toasts(effects')) = 1
        /\ Toasts(effects')[1].variant = "destructive"
        /\ Len(effects') = 1
        /\ ~dlgLoading /\ ~dlgLoading'
        /\ UNCHANGED formVars
        /\ UNCHANGED showCreateDialog]_vars

\* A submission whose title was a single space was rejected.
C3_Witness ==
    /\ event.name = "submitInvalid"
    /\ title = <<" ">>
    /\ description # <<>>
    /\ category = "Orders"
    /\ user # <<>>

\* ------------------------------------------------------------------ C4
\* C4: after a successful insert, every outcome of the users upsert ends in the
\* success toast and no failure toast, and in the reset, close and refresh steps.
C4_UpsertNeverSurfaced ==
    event.name \in UpsertEvents =>
        /\ Toasts(effects) = <<SuccessToast>>
        /\ event.live => FormEmpty
        /\ Calls(effects) = <<Call("onOpenChange", "false"), Call("onTicketCreated", "")>>
        /\ RequestsTo(effects, "tickets") = <<Request("tickets", "select")>>

\* ------------------------------------------------------------------ C5
\* C5 as stated: the back action takes the view from Detail to Loading: the
\* loading flag is set and a tickets fetch is sent.
C5_Original ==
    [][(event'.name = "back" /\ selectedTicket # <<>>) =>
        /\ loading'
        /\ Len(fetches') = Len(fetches) + 1]_vars

\* C5 amended: the back action only clears the selection: no fetch is sent, the
\* snapshot is kept and the loading flag stays false, so the view goes from
\* Detail straight to Populated or Empty.
C5_BackKeepsSnapshot ==
    [][(event'.name = "back" /\ selectedTicket # <<>>) =>
        /\ selectedTicket' = <<>>
        /\ UNCHANGED fetches
        /\ Requests(effects') = <<>>
        /\ UNCHANGED tickets
        /\ ~loading /\ ~loading']_vars

\* Back was pressed and the list shows the rows it had, with no fetch in flight.
C5_Witness ==
    /\ event.name = "back"
    /\ selectedTicket = <<>>
    /\ tickets # <<>>
    /\ fetches = <<>>
    /\ ~loading

\* ------------------------------------------------------------------ C6
\* C6 as stated: after a failed fetchTickets an error toast has been shown and
\* the snapshot is empty.
C6_Original ==
    event.name = "fetchFailed" =>
        /\ Toasts(effects) = <<FetchFailedToast>>
        /\ tickets = <<>>

\* C6 amended: a failed fetchTickets shows one error toast and leaves the
\* snapshot as it was before the fetch completed (empty only if it was empty).
C6_FailedFetchKeepsSnapshot ==
    [][event'.name = "fetchFailed" =>
        /\ Toasts(effects') = <<FetchFailedToast>>
        /\ UNCHANGED tickets]_vars

\* A re-fetch failed while the list held rows.
C6_Witness ==
    /\ event.name = "fetchFailed"
    /\ tickets # <<>>
    /\ effects = <<FetchFailedToast>>

\* ------------------------------------------------------------------ C7
\* C7 as stated: every completed creation attempt and every completed fetch
\* shows exactly one toast.
C7_Original ==
    event.name \in CreateOutcomes \cup {"fetchOk", "fetchFailed"} =>
        Len(Toasts(effects)) = 1

\* C7 amended: every completed creation attempt and every failed fetch shows
\* exactly one toast; a successful fetch shows none.
C7_OneToastPerOutcome ==
    /\ event.name \in CreateOutcomes \cup {"fetchFailed"} => Len(Toasts(effects)) = 1
    /\ event.name = "fetchOk" => Toasts(effects) = <<>>

\* A fetch brought rows and showed nothing.
C7_Witness ==
    /\ event.name = "fetchOk"
    /\ tickets # <<>>
    /\ effects = <<>>

\* ------------------------------------------------------------------ C8
LiveCreates == {c \in creates : c.live}

\* C8: the mounted dialog has at most one handleSubmit in flight, its pending
\* flag (the submit control's disabled attribute) is set for as long as that
\* one is, and after each outcome of a submission of the mounted dialog the
\* flag is clear.
C8_OneSubmissionInFlight ==
    /\ Cardinality(LiveCreates) <= 1
    /\ LiveCreates # {} => dlgLoading
    /\ (event.name \in {"insertFailed", "insertRejected"} \cup UpsertEvents /\ event.live) =>
          ~dlgLoading

\* An insert is in flight and the rendered dialog's submit control is disabled.
C8_Witness ==
    /\ event.name = "submitSent"
    /\ \E c \in LiveCreates : c.stage = "insert"
    /\ DialogRendered
    /\ dlgLoading

\* ------------------------------------------------------------------ C9
\* C9: when overlapping fetches have all completed successfully, the snapshot
\* is what the most recently issued of them was answered with.
C9_SnapshotIsLatestFetch ==
    (fetches = <<>> /\ latest.stage = "done" /\ ~latest.failed) => tickets = latest.data

\* ------------------------------------------------------------------ C10
\* C10: whenever the loading flag is set it is eventually cleared.
C10_LoadingEnds == loading ~> ~loading
====
